---------------------------- MODULE Spec2Model ----------------------------
(***************************************************************************)
(* A model of youtube-caption-extractor (src/src/index.ts) and of the      *)
(* endpoint that calls it (src/unnamed/part_000).                          *)
(*                                                                         *)
(* Documents are TLA+ strings; the string operators below are the          *)
(* JavaScript string and RegExp operations the source applies, computed    *)
(* position by position.                                                   *)
(***************************************************************************)
EXTENDS Integers, Sequences, FiniteSets, TLC

(***************************************************************************)
(* String primitives                                                       *)
(***************************************************************************)

Min(S) == CHOOSE x \in S : \A y \in S : x <= y

Max(S) == CHOOSE x \in S : \A y \in S : x >= y

\* s[i] of JavaScript (1-based here)
Char(s, i) == SubSeq(s, i, i)

\* s.substring(i - 1) of JavaScript
From(s, i) == SubSeq(s, i, Len(s))

StartsWithAt(s, i, p) ==
    /\ i >= 1
    /\ i + Len(p) - 1 <= Len(s)
    /\ SubSeq(s, i, i + Len(p) - 1) = p

\* s.indexOf(p) + 1: the first position of p in s, 0 when there is none
IndexOf(s, p) ==
    LET hits == {i \in 1..(Len(s) - Len(p) + 1) : StartsWithAt(s, i, p)}
    IN  IF hits = {} THEN 0 ELSE Min(hits)

\* s.includes(p)
Includes(s, p) == IndexOf(s, p) # 0

\* s.replace(p, r) with a string pattern: the first occurrence only
ReplaceFirst(s, p, r) ==
    LET i == IndexOf(s, p)
    IN  IF i = 0 THEN s
        ELSE SubSeq(s, 1, i - 1) \o r \o From(s, i + Len(p))

\* s.split(sep) with a non-empty string separator
RECURSIVE Split(_, _)
Split(s, sep) ==
    LET i == IndexOf(s, sep)
    IN  IF i = 0 THEN <<s>>
        ELSE <<SubSeq(s, 1, i - 1)>> \o Split(From(s, i + Len(sep)), sep)

WhiteSpace == {" ", "\t", "\n", "\r"}

LineTerminators == {"\n", "\r"}

\* !(line && line.trim()): the empty string and the all-whitespace strings
IsBlank(s) == \A i \in 1..Len(s) : Char(s, i) \in WhiteSpace

Digits == {"0", "1", "2", "3", "4", "5", "6", "7", "8", "9"}

\* the end of the longest run of characters of class cls starting at i
\* (i - 1 when s[i] is not in the class)
RECURSIVE RunEnd(_, _, _)
RunEnd(s, i, cls) ==
    IF i <= Len(s) /\ Char(s, i) \in cls THEN RunEnd(s, i + 1, cls) ELSE i - 1

\* the end of the longest run of characters not in class cls starting at i
RECURSIVE RunEndNot(_, _, _)
RunEndNot(s, i, cls) ==
    IF i <= Len(s) /\ Char(s, i) \notin cls THEN RunEndNot(s, i + 1, cls) ELSE i - 1

\* a RegExp match result: null, or the match's span and its first group
NoMatch == [found |-> FALSE, start |-> 0, end |-> 0, group |-> ""]

Match(b, e, g) == [found |-> TRUE, start |-> b, end |-> e, group |-> g]


(***************************************************************************)
(* The regular expressions of src/src/index.ts                             *)
(***************************************************************************)

\* /<meta name="NAME" content="([^"]*|[^"]*[^&]quot;[^"]*)">/ at position i.
\* Both alternatives consume characters other than '"' only and must be
\* followed by '">', so either ends at the end of the run of non-quote
\* characters; the second also needs a "quot;" after a character other
\* than '&' inside the run.
MetaMatchAt(data, name, i) ==
    LET prefix == "<meta name=\"" \o name \o "\" content=\""
        b      == i + Len(prefix)
        e      == RunEndNot(data, b, {"\""})
        run    == SubSeq(data, b, e)
        alt1   == StartsWithAt(data, e + 1, "\">")
        alt2   == /\ StartsWithAt(data, e + 1, "\">")
                  /\ \E k \in 2..Len(run) :
                        StartsWithAt(run, k, "quot;") /\ Char(run, k - 1) # "&"
    IN  IF StartsWithAt(data, i, prefix) /\ (alt1 \/ alt2)
        THEN Match(i, e + 2, run)
        ELSE NoMatch

\* data.match(/<meta name="NAME" content="(...)">/): the leftmost match
MetaMatch(data, name) ==
    LET hits == {i \in 1..Len(data) : MetaMatchAt(data, name, i).found}
    IN  IF hits = {} THEN NoMatch ELSE MetaMatchAt(data, name, Min(hits))

\* /"captionTracks":(\[.*?\])/ at position i: the lazy .*? stops at the
\* first ']' and '.' matches no line terminator
CaptionTracksMatchAt(data, i) ==
    LET prefix == "\"captionTracks\":["
        b      == i + Len(prefix) - 1
        e      == RunEndNot(data, b + 1, LineTerminators \cup {"]"})
    IN  IF StartsWithAt(data, i, prefix) /\ e < Len(data) /\ Char(data, e + 1) = "]"
        THEN Match(i, e + 1, SubSeq(data, b, e + 1))
        ELSE NoMatch

\* regex.exec(data) of lines 98-99 and 202-203
CaptionTracksMatch(data) ==
    LET hits == {i \in 1..Len(data) : CaptionTracksMatchAt(data, i).found}
    IN  IF hits = {} THEN NoMatch ELSE CaptionTracksMatchAt(data, Min(hits))

\* /NAME="([\d.]+)"/ at position i
AttrMatchAt(line, name, i) ==
    LET prefix == name \o "=\""
        b      == i + Len(prefix)
        e      == RunEnd(line, b, Digits \cup {"."})
    IN  IF StartsWithAt(line, i, prefix) /\ e >= b /\ StartsWithAt(line, e + 1, "\"")
        THEN Match(i, e + 1, SubSeq(line, b, e))
        ELSE NoMatch

AttrMatch(line, name) ==
    LET hits == {i \in 1..Len(line) : AttrMatchAt(line, name, i).found}
    IN  IF hits = {} THEN NoMatch ELSE AttrMatchAt(line, name, Min(hits))

\* startRegex.exec(line), /start="([\d.]+)"/
StartRegexExec(line) == AttrMatch(line, "start")

\* durRegex.exec(line), /dur="([\d.]+)"/
DurRegexExec(line) == AttrMatch(line, "dur")

\* /<text.+>/ at position i: the greedy .+ runs to the end of the line and
\* backs up to the last '>' that leaves it at least one character
TextTagMatchAt(line, i) ==
    LET b      == i + Len("<text")
        e      == RunEndNot(line, b, LineTerminators)
        closes == {j \in (b + 1)..e : Char(line, j) = ">"}
    IN  IF StartsWithAt(line, i, "<text") /\ closes # {}
        THEN Match(i, Max(closes), "")
        ELSE NoMatch

\* line.replace(/<text.+>/, "")
RemoveTextTag(line) ==
    LET hits == {i \in 1..Len(line) : TextTagMatchAt(line, i).found}
        m    == TextTagMatchAt(line, Min(hits))
    IN  IF hits = {} THEN line
        ELSE SubSeq(line, 1, m.start - 1) \o From(line, m.end + 1)

\* the strings /&amp;/i matches
AmpEntities ==
    {"&" \o a \o m \o p \o ";" : a \in {"a", "A"}, m \in {"m", "M"}, p \in {"p", "P"}}

\* s.replace(/&amp;/gi, "&"), from position i on
RECURSIVE ReplaceAmpFrom(_, _)
ReplaceAmpFrom(s, i) ==
    IF i > Len(s) THEN ""
    ELSE IF \E a \in AmpEntities : StartsWithAt(s, i, a)
         THEN "&" \o ReplaceAmpFrom(s, i + 5)
         ELSE Char(s, i) \o ReplaceAmpFrom(s, i + 1)

ReplaceAmp(s) == ReplaceAmpFrom(s, 1)

\* s.replace(/<\/?[^>]+(>|$)/g, ""), from position i on: a '<' followed by
\* at least one character other than '>' is removed with everything up to
\* and including the next '>', or up to the end of the string
RECURSIVE RemoveTagsFrom(_, _)
RemoveTagsFrom(s, i) ==
    IF i > Len(s) THEN ""
    ELSE IF Char(s, i) = "<" /\ i < Len(s) /\ Char(s, i + 1) # ">"
         THEN LET e == RunEndNot(s, i + 1, {">"})
              IN  RemoveTagsFrom(s, e + 2)
         ELSE Char(s, i) \o RemoveTagsFrom(s, i + 1)

RemoveTags(s) == RemoveTagsFrom(s, 1)

(***************************************************************************)
(* The two text libraries the parser calls: he.decode and striptags        *)
(***************************************************************************)

\* the named references he.decode resolves with their ';'
NamedEntities ==
    {<<"&amp;", "&">>, <<"&lt;", "<">>, <<"&gt;", ">">>, <<"&quot;", "\"">>,
     <<"&apos;", "'">>, <<"&#39;", "'">>, <<"&#34;", "\"">>}

\* the legacy references he.decode also resolves without a ';'
LegacyEntities ==
    {<<"&amp", "&">>, <<"&lt", "<">>, <<"&gt", ">">>, <<"&quot", "\"">>}

\* he.decode(s), from position i on: one left-to-right pass, so a character
\* produced by a reference is never decoded again
RECURSIVE HeDecodeFrom(_, _)
HeDecodeFrom(s, i) ==
    IF i > Len(s) THEN ""
    ELSE IF \E en \in NamedEntities : StartsWithAt(s, i, en[1])
         THEN LET en == CHOOSE x \in NamedEntities : StartsWithAt(s, i, x[1])
              IN  en[2] \o HeDecodeFrom(s, i + Len(en[1]))
    ELSE IF \E en \in LegacyEntities : StartsWithAt(s, i, en[1])
         THEN LET en == CHOOSE x \in LegacyEntities : StartsWithAt(s, i, x[1])
              IN  en[2] \o HeDecodeFrom(s, i + Len(en[1]))
    ELSE Char(s, i) \o HeDecodeFrom(s, i + 1)

HeDecode(s) == HeDecodeFrom(s, 1)

\* striptags(s), from position i on.  st is the scanner's state: "text"
\* outside a tag and "html" inside one; buf is the tag buffer's length,
\* depth the count of nested '<', and quote the quote character the scanner
\* is inside of ("" for none).  A tag still open at the end is dropped.
RECURSIVE StripTagsFrom(_, _, _, _, _, _)
StripTagsFrom(s, i, st, buf, depth, quote) ==
    IF i > Len(s) THEN ""
    ELSE LET c == Char(s, i) IN
    IF st = "text"
    THEN IF c = "<"
         THEN StripTagsFrom(s, i + 1, "html", 1, depth, quote)
         ELSE c \o StripTagsFrom(s, i + 1, "text", 0, depth, quote)
    ELSE IF c = "<"
         THEN IF quote # ""
              THEN StripTagsFrom(s, i + 1, "html", buf, depth, quote)
              ELSE StripTagsFrom(s, i + 1, "html", buf, depth + 1, quote)
    ELSE IF c = ">"
         THEN IF quote # ""
              THEN StripTagsFrom(s, i + 1, "html", buf, depth, quote)
              ELSE IF depth > 0
              THEN StripTagsFrom(s, i + 1, "html", buf, depth - 1, quote)
              ELSE StripTagsFrom(s, i + 1, "text", 0, 0, "")
    ELSE IF c \in {"\"", "'"}
         THEN StripTagsFrom(s, i + 1, "html", buf + 1, depth,
                            IF c = quote THEN "" ELSE IF quote # "" THEN quote ELSE c)
    ELSE IF c \in {" ", "\n"} /\ buf = 1
         THEN "< " \o StripTagsFrom(s, i + 1, "text", 0, depth, quote)
    ELSE StripTagsFrom(s, i + 1, "html", buf + 1, depth, quote)

StripTags(s) == StripTagsFrom(s, 1, "text", 0, 0, "")

(***************************************************************************)
(* JSON.parse of the captured track list                                   *)
(*                                                                         *)
(* A JavaScript value is [t, s]: its type and, for a string, its text.     *)
(* An element of the parsed array is [t, s, vssId, baseUrl]: the value     *)
(* and, for an object, the two properties the source reads.                *)
(***************************************************************************)

Undefined == [t |-> "undefined", s |-> ""]

Null == [t |-> "null", s |-> ""]

Str(x) == [t |-> "string", s |-> x]

Obj == [t |-> "object", s |-> ""]

Elem(v, vss, url) == [t |-> v.t, s |-> v.s, vssId |-> vss, baseUrl |-> url]

\* a value as a property of an enclosing object
AsProperty(e) == [t |-> e.t, s |-> e.s]

\* truthiness of a value: undefined, null and "" are falsy
Truthy(v) == v.t = "object" \/ (v.t = "string" /\ v.s # "")

ParseError == [ok |-> FALSE, next |-> 0, val |-> Elem(Undefined, Undefined, Undefined)]

Parsed(n, v) == [ok |-> TRUE, next |-> n, val |-> v]

\* a string literal at position i (the documents hold no escapes)
ParseStringAt(s, i) ==
    LET e == RunEndNot(s, i + 1, {"\""})
    IN  IF StartsWithAt(s, i, "\"") /\ e < Len(s)
        THEN Parsed(e + 2, Elem(Str(SubSeq(s, i + 1, e)), Undefined, Undefined))
        ELSE ParseError

RECURSIVE ParseValueAt(_, _)
RECURSIVE ParseMembersAt(_, _, _)

\* the members of an object from position i on, up to its '}'; acc holds
\* the properties read so far (a repeated key overwrites)
ParseMembersAt(s, i, acc) ==
    LET k == ParseStringAt(s, i)
        v == ParseValueAt(s, k.next + 1)
        a == IF k.val.s = "vssId"
             THEN Elem(Obj, AsProperty(v.val), acc.baseUrl)
             ELSE IF k.val.s = "baseUrl"
             THEN Elem(Obj, acc.vssId, AsProperty(v.val))
             ELSE acc
    IN  IF ~k.ok \/ ~StartsWithAt(s, k.next, ":") THEN ParseError
        ELSE IF ~v.ok THEN ParseError
        ELSE IF StartsWithAt(s, v.next, "}") THEN Parsed(v.next + 1, a)
        ELSE IF StartsWithAt(s, v.next, ",") THEN ParseMembersAt(s, v.next + 1, a)
        ELSE ParseError

\* a value at position i: a string, null, or an object
ParseValueAt(s, i) ==
    IF StartsWithAt(s, i, "\"") THEN ParseStringAt(s, i)
    ELSE IF StartsWithAt(s, i, "null")
         THEN Parsed(i + 4, Elem(Null, Undefined, Undefined))
    ELSE IF StartsWithAt(s, i, "{}")
         THEN Parsed(i + 2, Elem(Obj, Undefined, Undefined))
    ELSE IF StartsWithAt(s, i, "{")
         THEN ParseMembersAt(s, i + 1, Elem(Obj, Undefined, Undefined))
    ELSE ParseError

\* the elements of an array from position i on, up to its ']'
RECURSIVE ParseElementsAt(_, _, _)
ParseElementsAt(s, i, acc) ==
    LET v == ParseValueAt(s, i)
    IN  IF ~v.ok THEN [ok |-> FALSE, val |-> <<>>]
        ELSE IF StartsWithAt(s, v.next, "]")
             THEN [ok |-> v.next = Len(s), val |-> Append(acc, v.val)]
        ELSE IF StartsWithAt(s, v.next, ",")
             THEN ParseElementsAt(s, v.next + 1, Append(acc, v.val))
        ELSE [ok |-> FALSE, val |-> <<>>]

\* JSON.parse(captionTracksJson): ok = FALSE is the SyntaxError it throws
JSONParse(s) ==
    IF s = "[]" THEN [ok |-> TRUE, val |-> <<>>]
    ELSE IF StartsWithAt(s, 1, "[") THEN ParseElementsAt(s, 2, <<>>)
    ELSE [ok |-> FALSE, val |-> <<>>]

(***************************************************************************)
(* Caption track selection (lines 113-119 and 213-219)                     *)
(***************************************************************************)

\* new RegExp(p) throws a SyntaxError: a group that is never closed
RegExpSyntaxError(p) ==
    \E i \in 1..Len(p) :
        Char(p, i) = "(" /\ ~\E j \in (i + 1)..Len(p) : Char(p, j) = ")"

\* pattern p, of literal characters and '.', matches s at position i
RegExpMatchesAt(s, p, i) ==
    /\ i + Len(p) - 1 <= Len(s)
    /\ \A k \in 1..Len(p) :
          IF Char(p, k) = "."
          THEN Char(s, i + k - 1) \notin LineTerminators
          ELSE Char(s, i + k - 1) = Char(p, k)

\* s.match(p) # null for a string p: p is compiled as a regular expression
StringMatch(s, p) == \E i \in 1..(Len(s) + 1) : RegExpMatchesAt(s, p, i)

\* the three predicates handed to captionTracks.find, on one element:
\* "true", "false", or "throw" (a TypeError on null, or on a vssId that is
\* no string and has no match method; a SyntaxError on an invalid pattern)
TrackPredicate(rule, track, lang) ==
    IF track.t = "null" THEN "throw"
    ELSE IF rule = 1
         THEN IF track.vssId = Str("." \o lang) THEN "true" ELSE "false"
    ELSE IF rule = 2
         THEN IF track.vssId = Str("a." \o lang) THEN "true" ELSE "false"
    ELSE IF ~Truthy(track.vssId) THEN "false"
    ELSE IF track.vssId.t # "string" THEN "throw"
    ELSE IF RegExpSyntaxError("." \o lang) THEN "throw"
    ELSE IF StringMatch(track.vssId.s, "." \o lang) THEN "true" ELSE "false"

\* captionTracks.find(predicate) from element i on: the index of the first
\* element the predicate accepts, 0 for undefined, -1 when it throws
RECURSIVE FindFrom(_, _, _, _)
FindFrom(captionTracks, rule, lang, i) ==
    IF i > Len(captionTracks) THEN 0
    ELSE LET r == TrackPredicate(rule, captionTracks[i], lang)
         IN  IF r = "throw" THEN -1
             ELSE IF r = "true" THEN i
             ELSE FindFrom(captionTracks, rule, lang, i + 1)

\* find(rule 1) || find(rule 2) || find(rule 3): a later find runs only
\* when the earlier ones returned undefined
FindSubtitle(captionTracks, lang) ==
    LET r1 == FindFrom(captionTracks, 1, lang, 1)
        r2 == FindFrom(captionTracks, 2, lang, 1)
        r3 == FindFrom(captionTracks, 3, lang, 1)
    IN  IF r1 # 0 THEN r1 ELSE IF r2 # 0 THEN r2 ELSE r3

(***************************************************************************)
(* Caption document parsing (lines 135-174 and 231-270)                    *)
(***************************************************************************)

Prolog == "<?xml version=\"1.0\" encoding=\"utf-8\" ?><transcript>"

\* lines 158-164: the text of one fragment
CleanText(line) ==
    LET htmlText    == RemoveTags(ReplaceAmp(RemoveTextTag(line)))
        decodedText == HeDecode(htmlText)
    IN  StripTags(decodedText)

\* a faulty callback whose line 152 returns [] in place of acc
ReduceLineReset(acc, line) ==
    IF ~StartRegexExec(line).found \/ ~DurRegexExec(line).found THEN <<>>
    ELSE Append(acc, [start |-> StartRegexExec(line).group,
                      dur   |-> DurRegexExec(line).group,
                      text  |-> CleanText(line)])

\* the callback of reduce, lines 145-174
ReduceLine(acc, line) ==
    LET startResult == StartRegexExec(line)
        durResult   == DurRegexExec(line)
    IN  IF ~startResult.found \/ ~durResult.found THEN acc
        ELSE Append(acc, [start |-> startResult.group,
                          dur   |-> durResult.group,
                          text  |-> CleanText(line)])

RECURSIVE Reduce(_, _, _)
Reduce(fragments, i, acc) ==
    IF i > Len(fragments) THEN acc
    ELSE Reduce(fragments, i + 1, ReduceLine(acc, fragments[i]))

\* transcript.replace(...).replace(...).split("</text>")
Fragments(transcript) ==
    Split(ReplaceFirst(ReplaceFirst(transcript, Prolog, ""), "</transcript>", ""),
          "</text>")

\* .filter((line) => line && line.trim())
NonBlank(fragments) == SelectSeq(fragments, LAMBDA line : ~IsBlank(line))

\* lines 140-174 of getVideoDetails
ParseTranscript(transcript) == Reduce(NonBlank(Fragments(transcript)), 1, <<>>)

\* a faulty copy of lines 236-270 that loses the last line
SubtitlesLinesDropLast(transcript) ==
    LET all == Reduce(NonBlank(Fragments(transcript)), 1, <<>>)
    IN  SubSeq(all, 1, Len(all) - 1)

\* lines 236-270 of getSubtitles: the same statements as lines 140-174
SubtitlesLines(transcript) == Reduce(NonBlank(Fragments(transcript)), 1, <<>>)

(***************************************************************************)
(* Page processing (lines 64-129 and 193-225)                              *)
(***************************************************************************)

\* lines 74 and 67-69: titleMatch && titleMatch[1], null without a match
TitleOf(data) ==
    LET titleMatch == MetaMatch(data, "title")
    IN  IF titleMatch.found THEN Str(titleMatch.group) ELSE Null

\* lines 75-76 and 70-72
DescriptionOf(data) ==
    LET descriptionMatch == MetaMatch(data, "description")
    IN  IF descriptionMatch.found /\ descriptionMatch.group # ""
        THEN descriptionMatch.group
        ELSE "No description found"

\* a faulty line 83 that tests for null only: if (title === null)
TitleMissingNullOnly(title) == title.t = "null"

\* line 83: !title
TitleMissing(title) == ~Truthy(title)

\* a faulty line 122 that tests the track only: if (!subtitle)
BaseUrlMissingTrackOnly(captionTracks, subtitle) == subtitle = 0

\* line 122: !subtitle?.baseUrl, subtitle = 0 standing for undefined
BaseUrlMissing(captionTracks, subtitle) ==
    subtitle = 0 \/ ~Truthy(captionTracks[subtitle].baseUrl)

Located(outcome, tracks, subtitle) ==
    [outcome |-> outcome, captionTracks |-> tracks, subtitle |-> subtitle]

\* lines 87-129 of getVideoDetails: what locating the caption track ends in
\* ("malformed": JSON.parse throws; "findThrew": a find predicate throws),
\* the parsed list and the index of the selected track
LocateTrack(data, lang) ==
    IF ~Includes(data, "captionTracks") THEN Located("noMarker", <<>>, 0)
    ELSE LET regexResult == CaptionTracksMatch(data) IN
    IF ~regexResult.found THEN Located("noArray", <<>>, 0)
    ELSE LET parsed == JSONParse(regexResult.group) IN
    IF ~parsed.ok THEN Located("malformed", <<>>, 0)
    ELSE LET captionTracks == parsed.val
             subtitle      == FindSubtitle(captionTracks, lang) IN
    IF subtitle = -1 THEN Located("findThrew", captionTracks, 0)
    ELSE IF subtitle = 0 THEN Located("noTrack", captionTracks, 0)
    ELSE IF BaseUrlMissing(captionTracks, subtitle)
         THEN Located("noBaseUrl", captionTracks, subtitle)
    ELSE Located("found", captionTracks, subtitle)

\* lines 195-225 of getSubtitles: the same statements as lines 87-129
SubtitlesLocate(data, lang) == LocateTrack(data, lang)

(***************************************************************************)
(* The documents, track lists and arguments the model runs on              *)
(***************************************************************************)

\* the longest track list of a page
MaxPageTracks == 2

\* the longest track list handed to the selection on its own
MaxTracks == 3

\* the most pieces a caption document is assembled from
MaxPieces == 3

SeqsUpTo(S, n) == UNION {[1..k -> S] : k \in 0..n}

RECURSIVE Join(_, _)
Join(seq, sep) ==
    IF seq = <<>> THEN ""
    ELSE IF Len(seq) = 1 THEN seq[1]
    ELSE seq[1] \o sep \o Join(Tail(seq), sep)

\* the head of a page: both meta tags, no description, no title, and the
\* empty title of the comment at lines 78-82
Heads ==
    {"<meta name=\"title\" content=\"Demo\"><meta name=\"description\" content=\"About\">",
     "<meta name=\"title\" content=\"Demo\">",
     "<meta name=\"description\" content=\"About\">",
     "<meta name=\"title\" content=\"\"><meta name=\"description\" content=\"About\">"}

\* track descriptors as the page embeds them; the last has a ']' in its name
PageTracks ==
    {"{\"baseUrl\":\"u1\",\"vssId\":\".en\"}",
     "{\"baseUrl\":\"u2\",\"vssId\":\"a.en\"}",
     "{\"vssId\":\".fr\"}",
     "{\"baseUrl\":\"u4\",\"name\":{\"simpleText\":\"French [CC]\"},\"vssId\":\"a.fr\"}"}

\* the rest of a page: no marker, the marker without an array, and the
\* marker with an array of tracks
Tails ==
    {"", ",\"captions\":{\"captionTracks\":{}}"}
    \cup {",\"captionTracks\":[" \o Join(ts, ",") \o "],\"audioTracks\":[]" :
            ts \in SeqsUpTo(PageTracks, MaxPageTracks)}

Pages == {h \o t : h \in Heads, t \in Tails}

\* lang as the callers of the call flow pass it
Langs == {"en", "fr"}

\* lang is a free-form string: a code, a code no track carries, one with a
\* character that is special in a regular expression, and the empty string
FreeLangs == {"en", "fr", "en(", ""}

ProxyURLs == {"", "http://proxy:8080"}

VideoIDs == {"", "vid1"}

\* variant identifiers of the tracks handed to the selection
VssIds == {".en", "a.en", "en-US", "a.ben", "a.en-GB", ".fr"}

TrackLists ==
    {[i \in 1..Len(ids) |-> Elem(Obj, Str(ids[i]), Str("u"))] :
        ids \in SeqsUpTo(VssIds, MaxTracks)}

\* the pieces of a caption document: segments and the whitespace between
Pieces ==
    {"<text start=\"0.5\" dur=\"2.3\">Hello &amp;amp; world</text>",
     "<text start=\"3\" dur=\"1.5\">a <i>b</i> c</text>",
     "<text start=\"4.2\">no dur</text>",
     "<text dur=\"2\" start=\"7\">x &lt;b&gt;y&lt;/b&gt;</text>",
     "\n"}

Docs ==
    {Prolog \o Join(ps, "") \o "</transcript>" : ps \in SeqsUpTo(Pieces, MaxPieces)}

\* the caption documents the server of the call flow may hold
FlowDocs ==
    {Prolog \o "</transcript>",
     Prolog \o "<text start=\"0.5\" dur=\"2.3\">Hello &amp;amp; world</text>"
            \o "<text start=\"4.2\">no dur</text>" \o "</transcript>",
     "<html>Not Found</html>"}

(***************************************************************************)
(* State                                                                   *)
(***************************************************************************)

VARIABLES
    entry,          \* what the caller invokes: the endpoint's GET or one of
                    \* the two exported functions
    videoID,        \* Options.videoID
    lang,           \* Options.lang
    proxyURL,       \* Options.proxyURL, "" when none is given
    page,           \* the document the server holds for the video page
    captionDoc,     \* the document the server holds for the caption track
    op,             \* the exported function that is running
    pc,             \* where that call (or the endpoint) stands
    agent,          \* proxyAgent of fetchThroughProxy: none, live, destroyed
    fetches,        \* the network fetches the running call has issued
    data,           \* response.text() of the page fetch
    title,          \* line 74
    description,    \* line 75
    locate,         \* how locating the caption track ended
    captionTracks,  \* line 111 / 211
    subtitle,       \* line 114 / 214: index of the selected track, 0 for none
    transcript,     \* line 133 / 229
    lines,          \* line 140 / 236
    results,        \* what each exported function returned or threw
    httpStatus      \* the status of the endpoint's response, 0 for none yet

vars == <<entry, videoID, lang, proxyURL, page, captionDoc, op, pc, agent,
          fetches, data, title, description, locate, captionTracks, subtitle,
          transcript, lines, results, httpStatus>>

inputs == <<entry, videoID, lang, proxyURL, page>>

Ops == {"getSubtitles", "getVideoDetails"}

\* how a fetch settles: a success status, another status, a network error
Outcomes == {"ok", "status", "error"}

NoResult ==
    [status |-> "none", title |-> "", description |-> "", subtitles |-> <<>>,
     error |-> ""]

NoDoc == [held |-> FALSE, body |-> ""]

\* line 60 / 189
YoutubeUrl(id) == "https://youtube.com/watch?v=" \o id

\* lines 44 and 49
ProxyError(targetUrl, proxyUrl) ==
    "Failed to fetch " \o targetUrl \o " through proxy " \o proxyUrl

\* line 84
NoVideoError(id) == "No video found for: " \o id

\* the state of a call that has not run
CallIdle ==
    /\ op = "none"
    /\ agent = "none"
    /\ fetches = <<>>
    /\ data = ""
    /\ title = Undefined
    /\ description = ""
    /\ locate = "notRun"
    /\ captionTracks = <<>>
    /\ subtitle = 0
    /\ transcript = ""
    /\ lines = <<>>
    /\ results = [o \in Ops |-> NoResult]
    /\ httpStatus = 0
    /\ captionDoc = NoDoc

Init ==
    /\ entry \in {"GET", "getVideoDetails", "getSubtitles"}
    /\ videoID \in IF entry = "GET" THEN VideoIDs ELSE VideoIDs \ {""}
    /\ lang \in Langs
    /\ proxyURL \in ProxyURLs
    /\ page \in Pages
    /\ pc = "idle"
    /\ CallIdle

(***************************************************************************)
(* The call flow                                                           *)
(***************************************************************************)

Fetch(kind, url, proxied) ==
    [kind |-> kind, url |-> url, proxied |-> proxied, outcome |-> "pending"]

\* the last fetch of the call settles
Settled(fs, outcome) == [fs EXCEPT ![Len(fs)].outcome = outcome]

\* a faulty fetchThroughProxy that destroys the agent after line 42 only,
\* with no finally block
AgentAfterFetchOnSuccess(outcome) ==
    IF outcome = "ok" THEN "destroyed" ELSE "live"

\* line 51: the finally block of fetchThroughProxy, run however the fetch
\* of line 42 settled
AgentAfterFetch(outcome) == "destroyed"

\* the exported function o throws an error with message msg
Throw(o, msg) ==
    /\ pc' = "threw"
    /\ results' = [results EXCEPT ![o] =
                       [NoResult EXCEPT !.status = "threw", !.error = msg]]

\* the exported function o returns
Return(o, t, d, subs) ==
    /\ pc' = "returned"
    /\ results' = [results EXCEPT ![o] =
                       [status |-> "returned", title |-> t, description |-> d,
                        subtitles |-> subs, error |-> ""]]

\* lines 60-63 / 189-192: the call of exported function o up to its first
\* await; fetchThroughProxy creates its agent (line 40) before it fetches
StartCall(o) ==
    /\ op' = o
    /\ pc' = IF proxyURL # "" THEN "proxyFetch" ELSE "pageFetch"
    /\ agent' = IF proxyURL # "" THEN "live" ELSE "none"
    /\ fetches' = <<Fetch("page", YoutubeUrl(videoID), proxyURL # "")>>
    /\ data' = ""
    /\ title' = Undefined
    /\ description' = ""
    /\ locate' = "notRun"
    /\ captionTracks' = <<>>
    /\ subtitle' = 0
    /\ transcript' = ""
    /\ lines' = <<>>
    /\ UNCHANGED <<inputs, captionDoc, results, httpStatus>>

\* a caller invokes getVideoDetails
CallGetVideoDetails ==
    /\ entry = "getVideoDetails"
    /\ pc = "idle"
    /\ StartCall("getVideoDetails")

\* a caller invokes getSubtitles
CallGetSubtitles ==
    /\ entry = "getSubtitles"
    /\ pc = "idle"
    /\ StartCall("getSubtitles")

\* part_000 lines 4-15: GET answers 400 without a videoID and calls
\* getSubtitles otherwise
GETStart ==
    /\ entry = "GET"
    /\ pc = "idle"
    /\ IF videoID = ""
       THEN /\ pc' = "responded"
            /\ httpStatus' = 400
            /\ UNCHANGED <<inputs, captionDoc, op, agent, fetches, data, title,
                           description, locate, captionTracks, subtitle,
                           transcript, lines, results>>
       ELSE StartCall("getSubtitles")

\* part_000 lines 15-17: getSubtitles returned, GET calls getVideoDetails
GETCallDetails ==
    /\ entry = "GET"
    /\ op = "getSubtitles"
    /\ pc = "returned"
    /\ StartCall("getVideoDetails")

\* part_000 lines 19-24: 200 once both calls returned, 500 when one threw
GETRespond ==
    /\ entry = "GET"
    /\ \/ pc = "threw"
       \/ pc = "returned" /\ op = "getVideoDetails"
    /\ pc' = "responded"
    /\ httpStatus' = IF pc = "threw" THEN 500 ELSE 200
    /\ UNCHANGED <<inputs, captionDoc, op, agent, fetches, data, title,
                   description, locate, captionTracks, subtitle, transcript, lines,
                   results>>

\* lines 42-52: the fetch through the proxy settles; a status that is not
\* ok and a network error both end in the error of line 49, and the agent
\* is destroyed
ProxyFetchSettles ==
    /\ pc = "proxyFetch"
    /\ \E outcome \in Outcomes :
          /\ fetches' = Settled(fetches, outcome)
          /\ agent' = AgentAfterFetch(outcome)
          /\ IF outcome = "ok"
             THEN pc' = "pageText" /\ UNCHANGED results
             ELSE Throw(op, ProxyError(YoutubeUrl(videoID), proxyURL))
    /\ UNCHANGED <<inputs, captionDoc, op, data, title, description, locate,
                   captionTracks, subtitle, transcript, lines, httpStatus>>

\* line 63 / 192: the direct fetch settles; only a network error rejects,
\* and response.ok is never read
PageFetchSettles ==
    /\ pc = "pageFetch"
    /\ \E outcome \in Outcomes :
          /\ fetches' = Settled(fetches, outcome)
          /\ IF outcome = "error"
             THEN Throw(op, "fetch failed")
             ELSE pc' = "pageText" /\ UNCHANGED results
    /\ UNCHANGED <<inputs, captionDoc, op, agent, data, title, description,
                   locate, captionTracks, subtitle, transcript, lines, httpStatus>>

\* what both functions do with the outcome of locating the track, o having
\* title t and description d to return: lines 88-132 / 196-228
AfterLocate(o, t, d, loc) ==
    /\ locate' = loc.outcome
    /\ captionTracks' = loc.captionTracks
    /\ subtitle' = loc.subtitle
    /\ IF loc.outcome \in {"malformed", "findThrew"}
       THEN /\ Throw(o, IF loc.outcome = "malformed" THEN "SyntaxError"
                                                     ELSE "find threw")
            /\ UNCHANGED fetches
       ELSE IF loc.outcome = "found"
       THEN /\ pc' = "captionFetch"
            /\ fetches' = Append(fetches,
                   Fetch("caption", loc.captionTracks[loc.subtitle].baseUrl.s, FALSE))
            /\ UNCHANGED results
       ELSE /\ Return(o, t, d, <<>>)
            /\ UNCHANGED fetches

\* lines 64-132 of getVideoDetails: from the page's text to the return, the
\* throw or the fetch of the caption document
DetailsPage ==
    /\ op = "getVideoDetails"
    /\ pc = "pageText"
    /\ data' = page
    /\ title' = TitleOf(page)
    /\ description' = DescriptionOf(page)
    /\ IF TitleMissing(TitleOf(page))
       THEN /\ Throw(op, NoVideoError(videoID))
            /\ UNCHANGED <<locate, captionTracks, subtitle, fetches>>
       ELSE AfterLocate(op, TitleOf(page).s, DescriptionOf(page),
                        LocateTrack(page, lang))
    /\ UNCHANGED <<inputs, captionDoc, op, agent, transcript, lines, httpStatus>>

\* lines 193-228 of getSubtitles
SubtitlesPage ==
    /\ op = "getSubtitles"
    /\ pc = "pageText"
    /\ data' = page
    /\ AfterLocate(op, "", "", SubtitlesLocate(page, lang))
    /\ UNCHANGED <<inputs, captionDoc, op, agent, title, description,
                   transcript, lines, httpStatus>>

\* line 132 / 228: the fetch of the caption document settles; the server
\* holds one document for the track, chosen when it is first fetched
CaptionFetchSettles ==
    /\ pc = "captionFetch"
    /\ \E outcome \in Outcomes :
          /\ fetches' = Settled(fetches, outcome)
          /\ IF outcome = "error"
             THEN Throw(op, "fetch failed") /\ UNCHANGED captionDoc
             ELSE /\ pc' = "captionText"
                  /\ \E doc \in FlowDocs :
                        /\ captionDoc.held => doc = captionDoc.body
                        /\ captionDoc' = [held |-> TRUE, body |-> doc]
                  /\ UNCHANGED results
    /\ UNCHANGED <<inputs, op, agent, data, title, description, locate,
                   captionTracks, subtitle, transcript, lines, httpStatus>>

\* lines 133-180 of getVideoDetails
DetailsTranscript ==
    /\ op = "getVideoDetails"
    /\ pc = "captionText"
    /\ transcript' = captionDoc.body
    /\ lines' = ParseTranscript(captionDoc.body)
    /\ Return(op, title.s, description, ParseTranscript(captionDoc.body))
    /\ UNCHANGED <<inputs, captionDoc, op, agent, fetches, data, title,
                   description, locate, captionTracks, subtitle, httpStatus>>

\* lines 229-272 of getSubtitles
SubtitlesTranscript ==
    /\ op = "getSubtitles"
    /\ pc = "captionText"
    /\ transcript' = captionDoc.body
    /\ lines' = SubtitlesLines(captionDoc.body)
    /\ Return(op, "", "", SubtitlesLines(captionDoc.body))
    /\ UNCHANGED <<inputs, captionDoc, op, agent, fetches, data, title,
                   description, locate, captionTracks, subtitle, httpStatus>>

Next ==
    \/ CallGetVideoDetails
    \/ CallGetSubtitles
    \/ GETStart
    \/ GETCallDetails
    \/ GETRespond
    \/ ProxyFetchSettles
    \/ PageFetchSettles
    \/ DetailsPage
    \/ SubtitlesPage
    \/ CaptionFetchSettles
    \/ DetailsTranscript
    \/ SubtitlesTranscript

Spec == Init /\ [][Next]_vars

(***************************************************************************)
(* Track selection on its own: every track list and free-form lang         *)
(***************************************************************************)

\* the variables of the call flow, at rest
FlowAtRest ==
    /\ videoID = ""
    /\ proxyURL = ""
    /\ page = ""
    /\ captionDoc = NoDoc
    /\ op = "none"
    /\ agent = "none"
    /\ fetches = <<>>
    /\ data = ""
    /\ title = Undefined
    /\ description = ""
    /\ locate = "notRun"
    /\ results = [o \in Ops |-> NoResult]
    /\ httpStatus = 0

SelectInit ==
    /\ entry = "find"
    /\ pc = "select"
    /\ lang \in FreeLangs
    /\ captionTracks \in TrackLists
    /\ subtitle = 0
    /\ transcript = ""
    /\ lines = <<>>
    /\ FlowAtRest

\* lines 114-119 / 214-219: subtitle = -1 stands for the throw of a find
SelectTrack ==
    /\ pc = "select"
    /\ pc' = "selected"
    /\ subtitle' = FindSubtitle(captionTracks, lang)
    /\ UNCHANGED <<inputs, captionDoc, op, agent, fetches, data, title,
                   description, locate, captionTracks, transcript, lines,
                   results, httpStatus>>

SelectSpec == SelectInit /\ [][SelectTrack]_vars

(***************************************************************************)
(* Caption document parsing on its own: every document of Docs             *)
(***************************************************************************)

ParseInit ==
    /\ entry = "parse"
    /\ pc = "parse"
    /\ lang = "en"
    /\ captionTracks = <<>>
    /\ subtitle = 0
    /\ transcript \in Docs
    /\ lines = <<>>
    /\ FlowAtRest

\* lines 140-174
ParseLines ==
    /\ pc = "parse"
    /\ pc' = "parsed"
    /\ lines' = ParseTranscript(transcript)
    /\ UNCHANGED <<inputs, captionDoc, op, agent, fetches, data, title,
                   description, locate, captionTracks, subtitle, transcript,
                   results, httpStatus>>

ParseSpec == ParseInit /\ [][ParseLines]_vars

(***************************************************************************)
(* Properties of the call flow (Spec)                                      *)
(***************************************************************************)

Details == results["getVideoDetails"]

Subs == results["getSubtitles"]

\* getVideoDetails has read the page (lines 64-76 have run)
DetailsReadPage == op = "getVideoDetails" /\ title # Undefined

\* the title pattern of lines 67-69 finds no title in d, or an empty one
NoTitleIn(d) == ~MetaMatch(d, "title").found \/ MetaMatch(d, "title").group = ""

\* C1: getVideoDetails returns only with a non-empty title; on every page
\* whose title pattern does not match or captures an empty title it throws
\* the error that names videoID, whatever caption data the page holds, and
\* goes no further.
C1_TitleRequired ==
    /\ Details.status = "returned" => Details.title # ""
    /\ (DetailsReadPage /\ NoTitleIn(data)) =>
          /\ Details.status = "threw"
          /\ Details.error = NoVideoError(videoID)
          /\ Includes(Details.error, videoID)
          /\ locate = "notRun"

\* C1's case: the title is missing on a page that has caption tracks
C1_Witness ==
    /\ DetailsReadPage
    /\ NoTitleIn(data)
    /\ CaptionTracksMatch(data).found
    /\ Details.status = "threw"
    /\ videoID # ""

NoTrackOutcomes == {"noMarker", "noArray", "malformed", "noTrack", "noBaseUrl"}

\* C2: on a page with a title, each way of finding no caption track (no
\* marker, no array, a track list JSON.parse rejects, no track for lang, a
\* track without baseUrl) ends the call with a return of an empty subtitle
\* list (and of the title and description, for getVideoDetails), never
\* with a throw.
C2_NoTrackIsNotFatal ==
    (/\ op \in Ops
     /\ pc \in {"returned", "threw"}
     /\ locate \in NoTrackOutcomes
     /\ ~NoTitleIn(data)) =>
        /\ results[op].status = "returned"
        /\ results[op].subtitles = <<>>
        /\ op = "getVideoDetails" =>
              /\ results[op].title = MetaMatch(data, "title").group
              /\ results[op].description = DescriptionOf(data)

\* C5: a call returns only when every fetch it made ended with a success
\* status; a failed fetch or another status ends the call with an error.
C5_TransportFailureIsFatal ==
    \A o \in Ops :
        (op = o /\ results[o].status = "returned") =>
            \A i \in 1..Len(fetches) : fetches[i].outcome = "ok"

C9_AgentScopedToPageFetch ==
    /\ agent # "none" => proxyURL # ""
    /\ agent = "live" <=> pc = "proxyFetch"
    /\ (op \in Ops /\ proxyURL # "" /\ pc # "proxyFetch") => agent = "destroyed"
    /\ \A i \in 1..Len(fetches) :
          /\ fetches[i].proxied => (i = 1 /\ fetches[i].kind = "page" /\ proxyURL # "")
          /\ fetches[i].kind = "caption" => ~fetches[i].proxied

\* C9's case: the fetch through the proxy failed and the agent is destroyed
C9_Witness ==
    /\ agent = "destroyed"
    /\ fetches[1].outcome = "error"
    /\ results[op].status = "threw"

\* at most two fetches, one at a time: the page fetch, then, only once that
\* has settled and a track with a baseUrl is selected, the fetch of that
\* baseUrl; getVideoDetails makes no second fetch without a title
FetchesInSequence ==
    /\ Len(fetches) <= 2
    /\ \A i \in 1..Len(fetches) :
          /\ fetches[i].kind = IF i = 1 THEN "page" ELSE "caption"
          /\ i < Len(fetches) => fetches[i].outcome \in {"ok", "status"}
    /\ Len(fetches) = 2 =>
          /\ locate = "found"
          /\ subtitle \in 1..Len(captionTracks)
          /\ Truthy(captionTracks[subtitle].baseUrl)
          /\ fetches[2].url = captionTracks[subtitle].baseUrl.s
          /\ op = "getVideoDetails" => Truthy(title)

\* a call that awaits nothing has ended with a result or an error: it
\* awaits a fetch in flight, or holds a settled response for its
\* continuation to read, or has returned or thrown
NeverStuck ==
    op \in Ops =>
        \/ pc \in {"proxyFetch", "pageFetch", "captionFetch"}
              /\ fetches[Len(fetches)].outcome = "pending"
        \/ pc \in {"pageText", "captionText"}
              /\ fetches[Len(fetches)].outcome \in {"ok", "status"}
        \/ pc \in {"returned", "threw"} /\ results[op].status = pc
        \/ pc = "responded" /\ results[op].status \in {"returned", "threw"}

\* the continuation that reads the page ends the call or issues the one
\* caption fetch; the one that reads the caption document ends the call
ContinuationEnds ==
    /\ pc = "pageText" => pc' \in {"returned", "threw", "captionFetch"}
    /\ pc = "captionText" => pc' \in {"returned", "threw"}
    /\ pc = "captionFetch" => pc' \in {"captionText", "threw"}
    /\ pc \in {"proxyFetch", "pageFetch"} => pc' \in {"pageText", "threw"}

\* C10: a call makes at most two fetches, strictly in sequence (the page,
\* then at most one caption document, only after the page fetch settled
\* and only for a selected track with a baseUrl; none in getVideoDetails
\* when the title is missing), and once its fetches have settled every
\* call ends with a result or an error.
C10_TwoSequentialFetches ==
    /\ [](FetchesInSequence /\ NeverStuck)
    /\ [][ContinuationEnds]_vars

\* C10's case: a call that made both fetches and returned
C10_Witness ==
    /\ Len(fetches) = 2
    /\ fetches[2].outcome = "ok"
    /\ results[op].status = "returned"

(***************************************************************************)
(* Properties of track selection (SelectSpec)                              *)
(***************************************************************************)

\* the index of the first track of captionTracks that P accepts, 0 if none
FirstWhere(P(_)) ==
    LET hits == {i \in 1..Len(captionTracks) : P(captionTracks[i])}
    IN  IF hits = {} THEN 0 ELSE Min(hits)

\* the variant id of track is exactly id
HasVssId(track, id) == track.vssId = Str(id)

\* the variant id of track contains the characters of "." \o lang
ContainsDotLang(track) ==
    track.vssId.t = "string" /\ Includes(track.vssId.s, "." \o lang)

\* C3: the selected track is the first with variant id "." \o lang if
\* there is one, else the first with variant id "a." \o lang if there is
\* one, else the first whose variant id contains "." \o lang.
C3_StrictPriority ==
    pc = "selected" =>
        LET exact == FirstWhere(LAMBDA t : HasVssId(t, "." \o lang))
            auto  == FirstWhere(LAMBDA t : HasVssId(t, "a." \o lang))
            loose == FirstWhere(ContainsDotLang)
        IN  subtitle = IF exact # 0 THEN exact
                       ELSE IF auto # 0 THEN auto
                       ELSE loose

\* neither exact rule accepts a track, so the third rule decides
ThirdRuleDecides ==
    /\ FirstWhere(LAMBDA t : HasVssId(t, "." \o lang)) = 0
    /\ FirstWhere(LAMBDA t : HasVssId(t, "a." \o lang)) = 0

\* C4: when the third rule decides, it raises no error for any lang, it
\* selects a track exactly when some variant id contains "." \o lang, and
\* a track it selects has a variant id containing "." \o lang.
C4_LooseFallbackIsSubstring ==
    (pc = "selected" /\ ThirdRuleDecides) =>
        /\ subtitle # -1
        /\ subtitle # 0 <=> \E i \in 1..Len(captionTracks) :
                                ContainsDotLang(captionTracks[i])
        /\ subtitle > 0 => ContainsDotLang(captionTracks[subtitle])

(***************************************************************************)
(* Properties of caption document parsing (ParseSpec)                      *)
(***************************************************************************)

\* line holds NAME="v" for some non-empty v of digits and dots
HasNumericAttr(line, name) ==
    \E b \in 1..Len(line) : \E e \in b..Len(line) :
        /\ b > Len(name) + 2
        /\ SubSeq(line, b - Len(name) - 2, b - 1) = name \o "=\""
        /\ \A k \in b..e : Char(line, k) \in Digits \cup {"."}
        /\ Char(line, e + 1) = "\""

\* v is a non-empty run of digits and dots that line holds as NAME="v"
IsAttrText(line, name, v) ==
    /\ v # ""
    /\ \A k \in 1..Len(v) : Char(v, k) \in Digits \cup {"."}
    /\ Includes(line, name \o "=\"" \o v \o "\"")

\* the fragments of the document that make a line: not blank, with both
\* attributes, in document order
Qualifying ==
    SelectSeq(Fragments(transcript),
              LAMBDA f : /\ ~IsBlank(f)
                         /\ HasNumericAttr(f, "start")
                         /\ HasNumericAttr(f, "dur"))

\* C7: the lines are, in document order, one per fragment that is not
\* blank and has both a start and a dur attribute, each with the text of
\* the two attributes as written; the other fragments leave no trace.
C7_SkipAndContinue ==
    pc = "parsed" =>
        /\ Len(lines) = Len(Qualifying)
        /\ \A k \in 1..Len(lines) :
              /\ k <= Len(Qualifying)
              /\ IsAttrText(Qualifying[k], "start", lines[k].start)
              /\ IsAttrText(Qualifying[k], "dur", lines[k].dur)

\* C7's case: a fragment without dur and a blank fragment among fragments
\* that make lines, one of them after the fragment that is dropped
C7_Witness ==
    /\ pc = "parsed"
    /\ Len(lines) >= 1
    /\ \E i \in 1..Len(Fragments(transcript)) :
          /\ ~IsBlank(Fragments(transcript)[i])
          /\ ~HasNumericAttr(Fragments(transcript)[i], "dur")
          /\ \E j \in 1..(i - 1) : Fragments(transcript)[j] = Qualifying[1]
          /\ \E j \in (i + 1)..Len(Fragments(transcript)) :
                Fragments(transcript)[j] = Qualifying[Len(Qualifying)]
    /\ \E i \in 1..Len(Fragments(transcript)) : IsBlank(Fragments(transcript)[i])

\* line without its opening tag: "<text" up to the first '>' after it
OpeningTagRemoved(line) ==
    LET b     == IndexOf(line, "<text")
        close == {j \in (b + Len("<text"))..Len(line) : Char(line, j) = ">"}
    IN  IF b = 0 \/ close = {} THEN line
        ELSE SubSeq(line, 1, b - 1) \o From(line, Min(close) + 1)

\* the text of a fragment when step (a) removes the opening tag only
TextAfterOpeningTag(line) ==
    StripTags(HeDecode(RemoveTags(ReplaceAmp(OpeningTagRemoved(line)))))

\* C8: the text of every line is what follows the opening tag of its
\* fragment, with the markup removed and the entities decoded.
C8_OnlyOpeningTagRemoved ==
    pc = "parsed" =>
        \A k \in 1..Len(lines) :
            k <= Len(Qualifying) => lines[k].text = TextAfterOpeningTag(Qualifying[k])

=============================================================================
